---- MODULE Spec2Model ----
(***************************************************************************)
(* A model of the Google Maps CLI search tool (src/main.py): the query     *)
(* builder, the filename sanitizer, the search client, the CSV exporter    *)
(* and the CLI driver with its process-level exception handlers.           *)
(*                                                                         *)
(* Python values are represented as follows.                               *)
(*   - an optional argument (None or a value) is a record                  *)
(*     [some |-> BOOLEAN, val |-> value];                                  *)
(*   - the text handed to sanitize_filename is a sequence of characters,   *)
(*     each character a one-token string; "U+0130" stands for the letter   *)
(*     LATIN CAPITAL LETTER I WITH DOT ABOVE and "U+0307" for COMBINING    *)
(*     DOT ABOVE;                                                          *)
(*   - a dictionary entry that is absent is the string Missing, one whose  *)
(*     value is None is the string NoneVal.                                *)
(***************************************************************************)
EXTENDS Integers, Sequences, FiniteSets, TLC

VARIABLES
    entry,              \* how the code is entered: "cli" (the __main__ block) or a
                        \* direct call of "export_to_csv"
    pc,                 \* position of the process in main / search / export
    args,               \* argparse namespace: query, zip, distance, max_results, page
    stdoutOk,           \* whether print() to stdout succeeds
    formatted_query,    \* main: result of format_location_query
    searchCalls,        \* number of calls of gomaps.maps_search
    searchReq,          \* the arguments of the last gomaps.maps_search call
    results,            \* search_places: the collaborator's result sequence
    i,                  \* search_places: enumerate index of the place being processed
    populated_results,  \* search_places: records accumulated so far
    fetches,            \* number of place.get_values() calls
    main_results,       \* main: the value returned by search_places
    exportCalls,        \* number of calls of export_to_csv
    file,               \* the CSV file: [exists, rows]
    row_i,              \* export_to_csv: index of the next record to write
    csv_file,           \* main: the value returned by export_to_csv
    log,                \* the messages printed so far
    raised,             \* the exception propagating out of main(), "none" if none
    exitCode,           \* process exit status, -1 while running
    s_in, s_once, s_twice, s_pc,          \* sanitizer harness
    f_q, f_zip, f_dist, f_out, f_pc       \* query-builder harness

pipeVars == <<entry, pc, args, stdoutOk, formatted_query, searchCalls, searchReq, results, i,
              populated_results, fetches, main_results, exportCalls, file, row_i,
              csv_file, log, raised, exitCode>>
sanVars == <<s_in, s_once, s_twice, s_pc>>
fmtVars == <<f_q, f_zip, f_dist, f_out, f_pc>>
vars == <<pipeVars, sanVars, fmtVars>>

-----------------------------------------------------------------------------
(* Bounds of the model *)

MaxLen == 3         \* longest text given to the sanitizer harness
MaxPlaces == 3      \* longest result sequence of the collaborator

-----------------------------------------------------------------------------
(* Python values *)

Missing == "<missing>"
NoneVal == "<None>"

None == [some |-> FALSE, val |-> ""]
NoneInt == [some |-> FALSE, val |-> 0]
Some(v) == [some |-> TRUE, val |-> v]

\* truth value of an optional string: None and "" are falsy
TruthyStr(o) == o.some /\ o.val # ""
\* truth value of an optional integer: None and 0 are falsy
TruthyInt(o) == o.some /\ o.val # 0

RECURSIVE Join(_)
\* ''.join(chars)
Join(s) == IF s = <<>> THEN "" ELSE Head(s) \o Join(Tail(s))

RECURSIVE SeqsUpTo(_, _)
\* all sequences over S of length at most n
SeqsUpTo(S, n) ==
    IF n = 0 THEN {<<>>}
    ELSE LET shorter == SeqsUpTo(S, n - 1)
         IN shorter \cup {Append(s, c) : s \in {t \in shorter : Len(t) = n - 1}, c \in S}

-----------------------------------------------------------------------------
(* sanitize_filename *)

Chars == {"a", "A", " ", "-", "!", "_", "U+0130", "U+0307"}

\* re's \w on str: letters, digits and the underscore; a combining mark is not \w
IsWord(c) == c \in {"a", "A", "i", "_", "U+0130"}

\* str.lower() of one character; U+0130 lowers to "i" followed by U+0307
lower_char(c) ==
    CASE c = "A" -> <<"a">>
      [] c = "U+0130" -> <<"i", "U+0307">>
      [] OTHER -> <<c>>

\* filename.replace(' ', '-')
replace_spaces(s) == [k \in 1..Len(s) |-> IF s[k] = " " THEN "-" ELSE s[k]]

IsWordOrHyphen(c) == IsWord(c) \/ c = "-"
\* re.sub(r'[^\w\-]', '', filename)
strip_special(s) == SelectSeq(s, IsWordOrHyphen)

RECURSIVE lower(_)
\* filename.lower()
lower(s) == IF s = <<>> THEN <<>> ELSE lower_char(Head(s)) \o lower(Tail(s))

RECURSIVE collapse_hyphens(_)
\* re.sub(r'-+', '-', filename)
collapse_hyphens(s) ==
    IF Len(s) < 2 THEN s
    ELSE IF s[1] = "-" /\ s[2] = "-" THEN collapse_hyphens(Tail(s))
    ELSE <<s[1]>> \o collapse_hyphens(Tail(s))

RECURSIVE lstrip_hyphens(_)
lstrip_hyphens(s) ==
    IF s # <<>> /\ Head(s) = "-" THEN lstrip_hyphens(Tail(s)) ELSE s

RECURSIVE rstrip_hyphens(_)
rstrip_hyphens(s) ==
    IF s # <<>> /\ s[Len(s)] = "-" THEN rstrip_hyphens(SubSeq(s, 1, Len(s) - 1)) ELSE s

\* filename.strip('-')
strip_hyphens(s) == rstrip_hyphens(lstrip_hyphens(s))

sanitize_filename(filename) ==
    strip_hyphens(collapse_hyphens(lower(strip_special(replace_spaces(filename)))))

-----------------------------------------------------------------------------
(* format_location_query *)

format_location_query(base_query, zip_code, distance) ==
    IF TruthyStr(zip_code)
    THEN IF TruthyInt(distance)
         THEN base_query \o " within " \o ToString(distance.val) \o " miles of " \o zip_code.val
         ELSE base_query \o " near " \o zip_code.val
    ELSE base_query

-----------------------------------------------------------------------------
(* Place handles and place records of the collaborator *)

Weekdays == <<"Monday", "Tuesday", "Wednesday", "Thursday", "Friday", "Saturday", "Sunday">>
WeekdaySet == {Weekdays[k] : k \in 1..Len(Weekdays)}

CoordsMissing == [tag |-> "missing", lat |-> "", lon |-> ""]
CoordsNone == [tag |-> "none", lat |-> "", lon |-> ""]
Pair(a, b) == [tag |-> "pair", lat |-> a, lon |-> b]

HoursMissing == [tag |-> "missing", days |-> [d \in WeekdaySet |-> Missing]]
HoursWeek == [tag |-> "map",
              days |-> [d \in WeekdaySet |->
                          IF d = "Sunday" THEN Missing
                          ELSE IF d = "Saturday" THEN "Closed" ELSE "9-5"]]

OpenHoursMissing == [tag |-> "missing", Currently |-> Missing, Hours |-> HoursMissing]
OpenHoursNone == [tag |-> "none", Currently |-> Missing, Hours |-> HoursMissing]
\* the empty mapping {}
OpenHoursEmpty == [tag |-> "map", Currently |-> Missing, Hours |-> HoursMissing]
OpenHoursFull == [tag |-> "map", Currently |-> "Open", Hours |-> HoursWeek]

RecordFull ==
    [title |-> "Cafe", url |-> "maps/cafe", coords |-> Pair("40.7", "-74.0"),
     address |-> "1 Main St", website |-> "cafe.example", phone_number |-> "555-0100",
     rating |-> "4.5", open_hours |-> OpenHoursFull]
\* coords None, open_hours {}, address key absent, rating None
RecordSparse ==
    [title |-> "Kiosk", url |-> "maps/kiosk", coords |-> CoordsNone,
     address |-> Missing, website |-> "", phone_number |-> Missing,
     rating |-> NoneVal, open_hours |-> OpenHoursEmpty]
\* coords and open_hours keys absent
RecordNoKeys ==
    [title |-> "Stall", url |-> Missing, coords |-> CoordsMissing,
     address |-> "2 Side St", website |-> Missing, phone_number |-> "",
     rating |-> "", open_hours |-> OpenHoursMissing]
\* open_hours present with value None
RecordNoneHours ==
    [title |-> "Depot", url |-> "maps/depot", coords |-> Pair("1.0", "2.0"),
     address |-> "3 Back St", website |-> "", phone_number |-> "",
     rating |-> "3.0", open_hours |-> OpenHoursNone]

\* a place handle: its attributes (Missing when the handle has no such attribute) and
\* the outcome of its get_values(): raising, or returning `values`
Place(title, url, coords, raises, values) ==
    [title |-> title, url |-> url, coords |-> coords, raises |-> raises, values |-> values]

Places ==
    { Place("Cafe", "maps/cafe", Pair("40.7", "-74.0"), FALSE, RecordFull),
      Place("Bar", "maps/bar", Pair("5.0", "6.0"), TRUE, RecordFull),
      Place(Missing, Missing, CoordsMissing, TRUE, RecordFull),
      Place("Kiosk", "maps/kiosk", CoordsNone, FALSE, RecordSparse),
      Place("Stall", "maps/stall", Pair("7.0", "8.0"), FALSE, RecordNoKeys),
      Place("Depot", "maps/depot", Pair("1.0", "2.0"), FALSE, RecordNoneHours) }

\* the non-empty result sequences gomaps.maps_search may return
PlaceSeqs == SeqsUpTo(Places, MaxPlaces) \ {<<>>}

-----------------------------------------------------------------------------
(* search_places *)

\* place.x if hasattr(place, 'x') else default
attr_or(v, default) == IF v = Missing THEN default ELSE v

\* basic_data with the handle's own title, url and coords left out
basic_data_blank(place) ==
    [title |-> "", url |-> "", coords |-> Pair("", ""),
     address |-> "", website |-> "", phone_number |-> "", rating |-> "",
     open_hours |-> OpenHoursEmpty]

\* the degraded record built when place.get_values() raises
basic_data(place) ==
    [title |-> attr_or(place.title, ""),
     url |-> attr_or(place.url, ""),
     coords |-> IF place.coords.tag = "missing" THEN Pair("", "") ELSE place.coords,
     address |-> "", website |-> "", phone_number |-> "", rating |-> "",
     open_hours |-> OpenHoursEmpty]

\* one pass of the loop body's try/except: the record appended for `place`
place_record(place) == IF place.raises THEN basic_data(place) ELSE place.values

\* loop_break off by one: `>` for `>=`
loop_break_late(populated, max_results) == Len(populated) > max_results

\* loop_break left out: every place is fetched
loop_break_never(populated, max_results) == FALSE

\* if len(populated_results) >= max_results: break
loop_break(populated, max_results) == Len(populated) >= max_results

\* if not results: (the collaborator's result is falsy)
no_results(res) == res = <<>>

-----------------------------------------------------------------------------
(* export_to_csv *)

fieldnames ==
    <<"Place Name", "Address", "Latitude", "Longitude", "Phone Number", "Website",
      "Rating", "Google Maps URL", "Current Hours Status">>
    \o [k \in 1..Len(Weekdays) |-> Weekdays[k] \o " Hours"]

\* datetime.now().strftime("%Y%m%d"): the date of the run
date_stamp == "20250101"

\* f"{date_stamp}_{sanitized_query}.csv"
csv_filename(query_string) ==
    date_stamp \o "_" \o Join(sanitize_filename(query_string)) \o ".csv"

\* d.get(key, default): the default only when the key is absent
dict_get(v, default) == IF v = Missing THEN default ELSE v

\* csv.writer writes None as the empty string
csv_cell(v) == IF v = NoneVal THEN "" ELSE v

\* result.get('open_hours', {})
row_open_hours(result) ==
    IF result.open_hours.tag = "missing" THEN OpenHoursEmpty ELSE result.open_hours

\* open_hours.get(...) raises AttributeError when open_hours is None
row_raises(result) == row_open_hours(result).tag = "none"

\* the dictionary `row` built for one record (when building it does not raise),
\* in column order, as csv.DictWriter writes it
csv_row(result) ==
    LET coords == IF result.coords.tag = "missing" THEN Pair("", "") ELSE result.coords
        lat == IF coords.tag = "pair" THEN coords.lat ELSE ""
        lon == IF coords.tag = "pair" THEN coords.lon ELSE ""
        open_hours == row_open_hours(result)
        hours_dict == open_hours.Hours
        current_status == dict_get(open_hours.Currently, "")
        row == <<dict_get(result.title, ""), dict_get(result.address, ""), lat, lon,
                 dict_get(result.phone_number, ""), dict_get(result.website, ""),
                 dict_get(result.rating, ""), dict_get(result.url, ""), current_status>>
               \o [k \in 1..Len(Weekdays) |-> dict_get(hours_dict.days[Weekdays[k]], "")]
    IN [k \in 1..Len(row) |-> csv_cell(row[k])]

\* export_except returning the filename although the write failed
export_except_filename(filename) == Some(filename)

\* except Exception: ... return None
export_except(filename) == None

\* return filename
export_return(filename) == Some(filename)

-----------------------------------------------------------------------------
(* process boundary *)

\* parser.error(): argparse prints the usage message and exits with status 2
parser_error_status == 2

\* top_level_exit with the KeyboardInterrupt handler missing
top_level_exit_always_1(exc) == 1

\* the handlers of the __main__ block: sys.exit(0) on KeyboardInterrupt, sys.exit(1)
\* on any other Exception
top_level_exit(exc) == IF exc = "KeyboardInterrupt" THEN 0 ELSE 1

\* the three checks of main() that call parser.error
validation_error(a) ==
    \/ TruthyInt(a.distance) /\ ~TruthyStr(a.zip)
    \/ a.max_results <= 0
    \/ a.page <= 0

\* export_to_csv: `if not results` is the negation of this
truthy_list(l) == l # <<>>

\* main_has_results as `if results is not None:`
main_has_results_not_none(l) == TRUE

\* main: if results:
main_has_results(l) == l # <<>>

-----------------------------------------------------------------------------
(* The command lines and environments considered *)

Queries == {<<"a">>, <<"A", " ", "!">>}
ZipArgs == {None, Some(""), Some("10001")}
DistanceArgs == {NoneInt, Some(0), Some(5)}
MaxResultsArgs == {0, 1, 2}
PageArgs == {0, 1}

ArgSpace ==
    [query : Queries, zip : ZipArgs, distance : DistanceArgs,
     max_results : MaxResultsArgs, page : PageArgs]

NoFile == [exists |-> FALSE, rows |-> <<>>]
NoReq == [query |-> "", page_num |-> 0, delay |-> 0, log |-> FALSE]

PipeRest ==
    /\ formatted_query = ""
    /\ searchCalls = 0
    /\ searchReq = NoReq
    /\ results = <<>>
    /\ i = 0
    /\ populated_results = <<>>
    /\ fetches = 0
    /\ exportCalls = 0
    /\ file = NoFile
    /\ row_i = 0
    /\ csv_file = None
    /\ log = {}
    /\ raised = "none"
    /\ exitCode = -1

SanIdle == s_in = <<>> /\ s_once = <<>> /\ s_twice = <<>> /\ s_pc = "idle"
FmtIdle == f_q = "" /\ f_zip = None /\ f_dist = NoneInt /\ f_out = "" /\ f_pc = "idle"

\* the records export_to_csv may be handed: those get_values returns and the
\* degraded ones search_places builds
RecordSet == {place_record(p) : p \in Places}

\* the program run from the command line
InitCli ==
    /\ entry = "cli"
    /\ pc = "start"
    /\ args \in ArgSpace
    /\ stdoutOk \in BOOLEAN
    /\ main_results = <<>>

\* export_to_csv(results, query_string) called directly, as a library function
InitExport ==
    /\ entry = "export_to_csv"
    /\ pc = "export"
    /\ args \in [query : Queries, zip : {None}, distance : {NoneInt},
                  max_results : {1}, page : {1}]
    /\ stdoutOk = TRUE
    /\ main_results \in SeqsUpTo(RecordSet, MaxPlaces - 1)

Init ==
    /\ InitCli \/ InitExport
    /\ PipeRest
    /\ SanIdle
    /\ FmtIdle

-----------------------------------------------------------------------------
(* main: argument validation, query formatting, banner *)

SearchVars == <<searchCalls, searchReq, results, i, populated_results, fetches, main_results>>
ExportVars == <<exportCalls, file, row_i, csv_file>>

\* args = parser.parse_args() and the three validation checks
main_validate ==
    /\ pc = "start"
    /\ IF validation_error(args)
       THEN /\ pc' = "exited"
            /\ exitCode' = parser_error_status
            /\ log' = log \cup {"usage"}
       ELSE /\ pc' = "format"
            /\ UNCHANGED <<exitCode, log>>
    /\ UNCHANGED <<entry, args, stdoutOk, formatted_query, SearchVars, ExportVars, raised>>
    /\ UNCHANGED <<sanVars, fmtVars>>

\* formatted_query = format_location_query(args.query, zip_code=args.zip, distance=args.distance)
main_format ==
    /\ pc = "format"
    /\ formatted_query' = format_location_query(Join(args.query), args.zip, args.distance)
    /\ pc' = "banner"
    /\ UNCHANGED <<entry, args, stdoutOk, SearchVars, ExportVars, log, raised, exitCode>>
    /\ UNCHANGED <<sanVars, fmtVars>>

\* the banner prints of main(); a print to a broken stdout raises
main_banner ==
    /\ pc = "banner"
    /\ IF stdoutOk
       THEN /\ pc' = "search"
            /\ log' = log \cup {"banner"}
            /\ UNCHANGED raised
       ELSE /\ pc' = "toplevel"
            /\ raised' = "Exception"
            /\ UNCHANGED log
    /\ UNCHANGED <<entry, args, stdoutOk, formatted_query, SearchVars, ExportVars, exitCode>>
    /\ UNCHANGED <<sanVars, fmtVars>>

-----------------------------------------------------------------------------
(* search_places *)

\* results = gomaps.maps_search(query, page_num=page_num, delay=5, log=False):
\* the collaborator raises, returns nothing, or returns a sequence of places
search_places_call ==
    /\ pc = "search"
    /\ searchCalls' = searchCalls + 1
    /\ searchReq' = [query |-> formatted_query, page_num |-> args.page,
                     delay |-> 5, log |-> FALSE]
    /\ populated_results' = <<>>
    /\ \/ \* the call raises: except Exception -> return []
          /\ results' = <<>>
          /\ main_results' = <<>>
          /\ log' = log \cup {"Error during search"}
          /\ pc' = "found"
          /\ i' = 0
       \/ \E res \in PlaceSeqs \cup {<<>>} :
            /\ results' = res
            /\ IF no_results(res)
               THEN /\ main_results' = <<>>
                    /\ log' = log \cup {"No results found."}
                    /\ pc' = "found"
                    /\ i' = 0
               ELSE /\ pc' = "loop"
                    /\ i' = 1
                    /\ UNCHANGED <<main_results, log>>
    /\ UNCHANGED <<entry, args, stdoutOk, formatted_query, fetches, ExportVars, raised, exitCode>>
    /\ UNCHANGED <<sanVars, fmtVars>>

\* one iteration of `for i, place in enumerate(results, 1)`, and the return that
\* follows the last one
search_places_loop ==
    /\ pc = "loop"
    /\ LET place == results[i]
           populated == Append(populated_results, place_record(place))
       IN /\ fetches' = fetches + 1
          /\ populated_results' = populated
          /\ log' = IF place.raises THEN log \cup {"Warning"} ELSE log
          /\ IF loop_break(populated, args.max_results) \/ i = Len(results)
             THEN /\ main_results' = populated
                  /\ pc' = "found"
                  /\ i' = i
             ELSE /\ i' = i + 1
                  /\ pc' = "loop"
                  /\ UNCHANGED main_results
    /\ UNCHANGED <<entry, args, stdoutOk, formatted_query, searchCalls, searchReq, results,
                   ExportVars, raised, exitCode>>
    /\ UNCHANGED <<sanVars, fmtVars>>

-----------------------------------------------------------------------------
(* main: after the search *)

\* if results: ... csv_file = export_to_csv(results, args.query)  else: "No results found"
main_found ==
    /\ pc = "found"
    /\ IF main_has_results(main_results)
       THEN /\ log' = log \cup {"Found"}
            /\ exportCalls' = exportCalls + 1
            /\ pc' = "export"
       ELSE /\ log' = log \cup {"No results found. Try adjusting"}
            /\ pc' = "complete"
            /\ UNCHANGED exportCalls
    /\ UNCHANGED <<entry, args, stdoutOk, formatted_query, SearchVars, file, row_i, csv_file,
                   raised, exitCode>>
    /\ UNCHANGED <<sanVars, fmtVars>>

-----------------------------------------------------------------------------
(* export_to_csv, entered with results = main_results and query_string = args.query *)

export_pc_return == IF entry = "cli" THEN "after_export" ELSE "returned"

\* `if not results: return None`, then open(filename, 'w', ...) which may fail
export_to_csv_open ==
    /\ pc = "export"
    /\ IF ~truthy_list(main_results)
       THEN /\ log' = log \cup {"No results to export."}
            /\ csv_file' = None
            /\ pc' = export_pc_return
            /\ UNCHANGED <<file, row_i>>
       ELSE \/ /\ file' = [exists |-> TRUE, rows |-> <<>>]
               /\ pc' = "export_header"
               /\ UNCHANGED <<log, csv_file, row_i>>
            \/ /\ csv_file' = export_except(csv_filename(args.query))
               /\ log' = log \cup {"Error writing CSV file: OSError"}
               /\ pc' = export_pc_return
               /\ UNCHANGED <<file, row_i>>
    /\ UNCHANGED <<entry, args, stdoutOk, formatted_query, SearchVars, exportCalls,
                   raised, exitCode>>
    /\ UNCHANGED <<sanVars, fmtVars>>

\* writer.writeheader(), which may fail
export_to_csv_header ==
    /\ pc = "export_header"
    /\ \/ /\ file' = [file EXCEPT !.rows = Append(@, fieldnames)]
          /\ row_i' = 1
          /\ pc' = "export_rows"
          /\ UNCHANGED <<log, csv_file>>
       \/ /\ csv_file' = export_except(csv_filename(args.query))
          /\ log' = log \cup {"Error writing CSV file: OSError"}
          /\ pc' = export_pc_return
          /\ UNCHANGED <<file, row_i>>
    /\ UNCHANGED <<entry, args, stdoutOk, formatted_query, SearchVars, exportCalls,
                   raised, exitCode>>
    /\ UNCHANGED <<sanVars, fmtVars>>

\* one iteration of `for result in results`: build the row (which raises when
\* open_hours is None) and writer.writerow(row), which may fail
export_to_csv_row ==
    /\ pc = "export_rows"
    /\ row_i <= Len(main_results)
    /\ LET result == main_results[row_i]
       IN IF row_raises(result)
          THEN /\ csv_file' = export_except(csv_filename(args.query))
               /\ log' = log \cup {"Error writing CSV file: AttributeError"}
               /\ pc' = export_pc_return
               /\ UNCHANGED <<file, row_i>>
          ELSE \/ /\ file' = [file EXCEPT !.rows = Append(@, csv_row(result))]
                  /\ row_i' = row_i + 1
                  /\ UNCHANGED <<pc, log, csv_file>>
               \/ /\ csv_file' = export_except(csv_filename(args.query))
                  /\ log' = log \cup {"Error writing CSV file: OSError"}
                  /\ pc' = export_pc_return
                  /\ UNCHANGED <<file, row_i>>
    /\ UNCHANGED <<entry, args, stdoutOk, formatted_query, SearchVars, exportCalls,
                   raised, exitCode>>
    /\ UNCHANGED <<sanVars, fmtVars>>

\* the loop is exhausted: print "Success!" and return filename
export_to_csv_success ==
    /\ pc = "export_rows"
    /\ row_i > Len(main_results)
    /\ csv_file' = export_return(csv_filename(args.query))
    /\ log' = log \cup {"Success!"}
    /\ pc' = export_pc_return
    /\ UNCHANGED <<entry, args, stdoutOk, formatted_query, SearchVars, exportCalls, file,
                   row_i, raised, exitCode>>
    /\ UNCHANGED <<sanVars, fmtVars>>

-----------------------------------------------------------------------------
(* main: summary, completion, and the handlers of the __main__ block *)

\* if csv_file: print the summary (a print may raise, e.g. on a title the terminal
\* cannot encode)
main_summary ==
    /\ pc = "after_export"
    /\ IF TruthyStr(csv_file)
       THEN \/ /\ log' = log \cup {"Summary of results"}
               /\ pc' = "complete"
               /\ UNCHANGED raised
            \/ /\ raised' = "Exception"
               /\ pc' = "toplevel"
               /\ UNCHANGED log
       ELSE /\ pc' = "complete"
            /\ UNCHANGED <<log, raised>>
    /\ UNCHANGED <<entry, args, stdoutOk, formatted_query, SearchVars, ExportVars, exitCode>>
    /\ UNCHANGED <<sanVars, fmtVars>>

\* print "Search complete!"; main() returns and the process ends with status 0
main_complete ==
    /\ pc = "complete"
    /\ log' = log \cup {"Search complete!"}
    /\ pc' = "exited"
    /\ exitCode' = 0
    /\ UNCHANGED <<entry, args, stdoutOk, formatted_query, SearchVars, ExportVars, raised>>
    /\ UNCHANGED <<sanVars, fmtVars>>

InterruptiblePcs ==
    {"format", "banner", "search", "loop", "found", "export", "export_header",
     "export_rows", "after_export", "complete"}

\* the user interrupts the run: KeyboardInterrupt is no Exception, so no handler
\* inside main(), search_places or export_to_csv catches it
keyboard_interrupt ==
    /\ entry = "cli"
    /\ pc \in InterruptiblePcs
    /\ raised' = "KeyboardInterrupt"
    /\ pc' = "toplevel"
    /\ UNCHANGED <<entry, args, stdoutOk, formatted_query, SearchVars, ExportVars, log, exitCode>>
    /\ UNCHANGED <<sanVars, fmtVars>>

\* except KeyboardInterrupt: sys.exit(0) / except Exception: sys.exit(1)
top_level_handler ==
    /\ pc = "toplevel"
    /\ exitCode' = top_level_exit(raised)
    /\ log' = log \cup {IF raised = "KeyboardInterrupt"
                        THEN "Search cancelled by user." ELSE "Unexpected error"}
    /\ pc' = "exited"
    /\ UNCHANGED <<entry, args, stdoutOk, formatted_query, SearchVars, ExportVars, raised>>
    /\ UNCHANGED <<sanVars, fmtVars>>

Next ==
    \/ main_validate
    \/ main_format
    \/ main_banner
    \/ search_places_call
    \/ search_places_loop
    \/ main_found
    \/ export_to_csv_open
    \/ export_to_csv_header
    \/ export_to_csv_row
    \/ export_to_csv_success
    \/ main_summary
    \/ main_complete
    \/ keyboard_interrupt
    \/ top_level_handler

Spec == Init /\ [][Next]_vars

-----------------------------------------------------------------------------
(* sanitize_filename applied to arbitrary text, once and then to its own output *)

PipeIdle ==
    /\ entry = "none"
    /\ pc = "idle"
    /\ args = [query |-> <<>>, zip |-> None, distance |-> NoneInt,
               max_results |-> 1, page |-> 1]
    /\ stdoutOk = TRUE
    /\ main_results = <<>>
    /\ PipeRest

InitSanitize ==
    /\ s_in \in SeqsUpTo(Chars, MaxLen)
    /\ s_once = <<>>
    /\ s_twice = <<>>
    /\ s_pc = "input"
    /\ PipeIdle
    /\ FmtIdle

sanitize_once ==
    /\ s_pc = "input"
    /\ s_once' = sanitize_filename(s_in)
    /\ s_pc' = "once"
    /\ UNCHANGED <<s_in, s_twice, pipeVars, fmtVars>>

sanitize_twice ==
    /\ s_pc = "once"
    /\ s_twice' = sanitize_filename(s_once)
    /\ s_pc' = "twice"
    /\ UNCHANGED <<s_in, s_once, pipeVars, fmtVars>>

NextSanitize == sanitize_once \/ sanitize_twice

SpecSanitize == InitSanitize /\ [][NextSanitize]_vars

-----------------------------------------------------------------------------
(* format_location_query applied to arbitrary arguments *)

BaseQueries == {"", "pizza", "coffee shops"}
FmtZips == {None, Some(""), Some("10001"), Some("94025")}
FmtDistances == {NoneInt, Some(0), Some(5), Some(10), Some(-1)}

InitFormat ==
    /\ f_q \in BaseQueries
    /\ f_zip \in FmtZips
    /\ f_dist \in FmtDistances
    /\ f_out = ""
    /\ f_pc = "input"
    /\ PipeIdle
    /\ SanIdle

format_call ==
    /\ f_pc = "input"
    /\ f_out' = format_location_query(f_q, f_zip, f_dist)
    /\ f_pc' = "done"
    /\ UNCHANGED <<f_q, f_zip, f_dist, pipeVars, sanVars>>

NextFormat == format_call

SpecFormat == InitFormat /\ [][NextFormat]_vars

-----------------------------------------------------------------------------
(* Claims *)

\* what the claims call "provided": the option was given on the command line
Provided(o) == o.some

Min(a, b) == IF a < b THEN a ELSE b

\* search_places has just returned from its loop (the collaborator's call neither
\* raised nor came back empty) and main holds its value
SearchReturned ==
    /\ entry = "cli"
    /\ pc = "found"
    /\ results # <<>>

\* C1: whenever --distance is provided without --zip, or --max-results <= 0, or
\* --page <= 0, the search function is never invoked and the run ends with a usage
\* error and a non-zero exit status.
C1_ValidationBeforeSearch ==
    (/\ entry = "cli"
     /\ \/ Provided(args.distance) /\ ~Provided(args.zip)
        \/ args.max_results <= 0
        \/ args.page <= 0)
    => /\ searchCalls = 0
       /\ pc \in {"start", "exited"}
       /\ pc = "exited" => exitCode # 0 /\ "usage" \in log

\* C2: search_places returns exactly min(n, max_results) records, the records of the
\* first min(n, max_results) places in the collaborator's order, whichever detail
\* fetches fail.
C2_FirstMinRecords ==
    SearchReturned =>
        /\ Len(main_results) = Min(Len(results), args.max_results)
        /\ \A k \in 1..Len(main_results) :
              /\ main_results[k].title \in {results[k].values.title, results[k].title, ""}
              /\ ~results[k].raises => main_results[k] = results[k].values
              /\ results[k].raises => main_results[k].address = ""

C2_Witness ==
    /\ SearchReturned
    /\ Len(results) = 3
    /\ args.max_results = 2
    /\ Len(main_results) = 2
    /\ results[1].raises
    /\ ~results[2].raises

\* C3: format_location_query(q, zip, dist) is q when zip is absent, "q near zip" when
\* zip is present and dist absent, and "q within dist miles of zip" when both are
\* present, for every present value including dist = 0 and zip = "".
C3_FormatByPresence ==
    f_pc = "done" =>
        f_out = IF ~Provided(f_zip) THEN f_q
                ELSE IF ~Provided(f_dist) THEN f_q \o " near " \o f_zip.val
                ELSE f_q \o " within " \o ToString(f_dist.val) \o " miles of " \o f_zip.val

\* C4 as stated: the exit status is 1 after a validation error (distance without zip,
\* max_results <= 0, page <= 0) or an unexpected exception at the top level, and 0 after
\* a completed or interrupted run.
C4_ExitOneOnValidationError ==
    (entry = "cli" /\ pc = "exited") =>
        exitCode = IF \/ Provided(args.distance) /\ ~Provided(args.zip)
                      \/ args.max_results <= 0
                      \/ args.page <= 0
                      \/ raised = "Exception"
                   THEN 1 ELSE 0

\* C4 amended: the exit status is 2 when main's validation rejects the arguments (a
\* non-zero distance without a non-empty zip, max_results <= 0, page <= 0), 1 when an
\* unexpected exception reaches the top level, 0 when the run completes or is
\* interrupted; the process has no exit status before it has exited.
C4_ExitCodes ==
    entry = "cli" =>
        IF pc = "exited"
        THEN exitCode =
               IF \/ (args.distance.some /\ args.distance.val # 0)
                       /\ ~(args.zip.some /\ args.zip.val # "")
                  \/ args.max_results <= 0
                  \/ args.page <= 0
               THEN 2
               ELSE IF raised = "Exception" THEN 1 ELSE 0
        ELSE exitCode = -1

C4_Witness ==
    /\ entry = "cli"
    /\ pc = "exited"
    /\ args.max_results <= 0
    /\ exitCode = 2
    /\ searchCalls = 0

\* C5: when the collaborator's search call raises or returns nothing, search_places
\* returns the empty sequence instead of raising, and the driver prints the 'no
\* results' message and finishes normally without calling export_to_csv.
C5_SearchFailureIsNoResults ==
    (entry = "cli" /\ searchCalls > 0 /\ results = <<>>) =>
        /\ main_results = <<>>
        /\ raised # "Exception"
        /\ exportCalls = 0
        /\ ~file.exists
        /\ pc \in {"found", "complete", "toplevel", "exited"}
        /\ (pc = "exited" /\ raised = "none") =>
              /\ exitCode = 0
              /\ "No results found. Try adjusting" \in log
              /\ "Search complete!" \in log

C5_Witness ==
    /\ entry = "cli"
    /\ "Error during search" \in log
    /\ pc = "exited"
    /\ raised = "none"
    /\ exitCode = 0
    /\ exportCalls = 0

\* C6: a detail fetch that raises for place k puts at position k the degraded record
\* built from the handle's title, url and coords (empty defaults when the handle lacks
\* them) with empty detail fields; every other processed place keeps its own record;
\* the loop goes on with place k+1 and ends only when the places are exhausted or
\* max_results records are held.
C6_DegradedRecordInPlace ==
    (entry = "cli" /\ results # <<>>) =>
        /\ Len(populated_results) <= Len(results)
        /\ \A k \in 1..Len(populated_results) :
              populated_results[k] =
                 IF results[k].raises
                 THEN [title |-> IF results[k].title = Missing THEN "" ELSE results[k].title,
                       url |-> IF results[k].url = Missing THEN "" ELSE results[k].url,
                       coords |-> IF results[k].coords.tag = "missing"
                                  THEN Pair("", "") ELSE results[k].coords,
                       address |-> "", website |-> "", phone_number |-> "",
                       rating |-> "", open_hours |-> OpenHoursEmpty]
                 ELSE results[k].values
        /\ pc = "loop" => i = Len(populated_results) + 1 /\ i <= Len(results)
        /\ pc = "found" =>
              /\ main_results = populated_results
              /\ \/ Len(populated_results) = Len(results)
                 \/ Len(populated_results) >= args.max_results

C6_Witness ==
    /\ entry = "cli"
    /\ pc = "found"
    /\ Len(results) = 3
    /\ Len(main_results) = 2
    /\ results[1].raises
    /\ results[1].title = Missing
    /\ main_results[1].title = ""
    /\ ~results[2].raises
    /\ main_results[2] = results[2].values

\* C7: sanitize_filename(sanitize_filename(s)) = sanitize_filename(s) for every s.
C7_SanitizeIdempotent ==
    s_pc = "twice" => s_twice = s_once

\* the columns of a written row
Column(row, name) == row[CHOOSE k \in 1..Len(fieldnames) : fieldnames[k] = name]

\* C8: unless the file cannot be opened or written, export_to_csv writes the header
\* and then one row per record in input order; a record without coords (key absent or
\* None) has empty Latitude and Longitude, a record without open_hours (key absent,
\* None or {}) has empty Current Hours Status and weekday columns.
C8_OneRowPerRecord ==
    (/\ pc \in {"after_export", "returned"}
     /\ main_results # <<>>
     /\ "Error writing CSV file: OSError" \notin log)
    => /\ Len(file.rows) = Len(main_results) + 1
       /\ file.rows[1] = fieldnames
       /\ \A k \in 1..Len(main_results) :
             LET rec == main_results[k]
                 row == file.rows[k + 1]
             IN /\ Column(row, "Place Name") =
                      (IF rec.title \in {Missing, NoneVal} THEN "" ELSE rec.title)
                /\ rec.coords.tag \in {"missing", "none"} =>
                      Column(row, "Latitude") = "" /\ Column(row, "Longitude") = ""
                /\ (rec.open_hours.tag \in {"missing", "none"} \/ rec.open_hours = OpenHoursEmpty) =>
                      /\ Column(row, "Current Hours Status") = ""
                      /\ \A d \in 1..Len(Weekdays) : row[9 + d] = ""

\* C9: when opening or writing the CSV file fails, before the header or after any
\* number of rows, export_to_csv returns None instead of raising; the driver prints
\* no summary, reaches 'Search complete' and exits with status 0.  Called with an
\* empty result sequence, export_to_csv returns None and creates no file.
C9_ExportFailureRecovered ==
    /\ ({"Error writing CSV file: OSError", "Error writing CSV file: AttributeError"}
          \cap log # {}) =>
          /\ pc \in {"after_export", "returned", "complete", "toplevel", "exited"}
          /\ csv_file = None
          /\ "Summary of results" \notin log
          /\ raised # "Exception"
          /\ pc = "exited" => exitCode = 0
          /\ (pc = "exited" /\ raised = "none") => "Search complete!" \in log
    /\ (entry = "export_to_csv" /\ main_results = <<>> /\ pc = "returned") =>
          csv_file = None /\ ~file.exists

C9_Witness ==
    /\ entry = "cli"
    /\ "Error writing CSV file: OSError" \in log
    /\ Len(file.rows) = 2
    /\ Len(main_results) = 2
    /\ pc = "exited"
    /\ raised = "none"
    /\ exitCode = 0

\* C10 as stated: truncation happens after detail-fetching, so that when the
\* collaborator returns more than max_results places more details are fetched than
\* records are returned.
C10_FetchesExceedReturned ==
    (SearchReturned /\ Len(results) > args.max_results) => fetches > Len(main_results)

\* C10 amended: truncation happens during detail-fetching: every get_values call adds
\* one record, no more than max_results calls are made, and search_places returns as
\* many records as it made calls.
C10_FetchesEqualReturned ==
    entry = "cli" =>
        /\ fetches = Len(populated_results)
        /\ fetches <= args.max_results
        /\ SearchReturned => fetches = Len(main_results)

C10_Witness ==
    /\ SearchReturned
    /\ Len(results) > args.max_results
    /\ fetches = args.max_results
    /\ Len(main_results) = fetches

====
